---------------------------- MODULE Spec2Model ----------------------------
(***************************************************************************)
(* A model of the `who` utility (src/who/src/main.rs), typed accounting    *)
(* layout (the build with target_os other than openbsd).                   *)
(*                                                                         *)
(* One run of main() is a state machine: the command line is resolved into *)
(* WhoFlags, the record set is loaded (from FILE, falling back to the live *)
(* database), filter_entries selects the records, main sorts them by login *)
(* time, and the result is either counted or handed to the row printer.    *)
(* print_info probes the device of every row with def_status, the file      *)
(* system choosing what each probe finds; def_status over every metadata   *)
(* outcome and clock is checked by a specification of its own              *)
(* (SpecStatus), and from_matches over every option set by SpecFlags.      *)
(*                                                                         *)
(* Text is modelled as a sequence of one-character strings, so that        *)
(* prefix stripping and number formatting are computed, not assumed.       *)
(***************************************************************************)
EXTENDS Integers, Sequences, FiniteSets

VARIABLES
    pc,         \* position of the run in main()
    argv,       \* the options present on the command line (clap matches)
    file_arg,   \* the FILE positional argument, or NoFile
    live,       \* what UtmpxSet::system() returned: the live accounting database
    flags,      \* WhoFlags
    uts,        \* the loaded record set
    tty,        \* the outcome of TTYName::new(StdIn) in filter_entries
    buckets,    \* uts_user, uts_boot, ... of filter_entries
    selected,   \* the value filter_entries returns
    ut_vec,     \* ut_vec of main after sort_unstable_by_key
    stdout,     \* what the run printed
    stderr,     \* the messages written to the error stream
    exit_code,  \* 0, 1, or -1 while running
    dev_name,   \* def_status: the record's device name
    meta,       \* def_status: the outcome of dev_file.metadata()
    now,        \* def_status: time::now().to_timespec().sec
    status      \* def_status: the (msg, idle) pair returned

vars == <<pc, argv, file_arg, live, flags, uts, tty, buckets, selected,
          ut_vec, stdout, stderr, exit_code, dev_name, meta, now, status>>

----------------------------------------------------------------------------
(* Bounds of the model.                                                    *)

\* the longest accounting database
MaxRecs == 2
\* the largest number of options on one command line (main specification)
MaxOpts == 2

----------------------------------------------------------------------------
(* Text.                                                                   *)

DevPrefix == <<"/", "d", "e", "v", "/">>
TtyA1 == <<"t", "t", "y", "A", "1">>
TtyB2 == <<"t", "t", "y", "B", "2">>
Tilde == <<"~">>
\* a device name holding a byte that is not valid UTF-8
BadDev == <<"t", "t", "y", "0xFF">>
\* the text "tty" followed by the replacement character U+FFFD
TtyReplacement == <<"t", "t", "y", "U+FFFD">>

IsPrefix(p, s) == Len(p) <= Len(s) /\ SubSeq(s, 1, Len(p)) = p

\* str::trim_start_matches: the pattern is removed as long as it is a prefix
RECURSIVE TrimStartMatches(_, _)
TrimStartMatches(s, pat) ==
    IF Len(pat) > 0 /\ IsPrefix(pat, s)
    THEN TrimStartMatches(SubSeq(s, Len(pat) + 1, Len(s)), pat)
    ELSE s

\* format!("{}", bytes): Display of a byte string is lossy, every byte that is
\* not valid UTF-8 is shown as the replacement character U+FFFD
Display(d) == [i \in 1..Len(d) |-> IF d[i] = "0xFF" THEN "U+FFFD" ELSE d[i]]

\* ByteSlice::to_str: fails on a byte sequence that is not UTF-8
to_str(d) ==
    IF \E i \in 1..Len(d) : d[i] = "0xFF"
    THEN [ok |-> FALSE, text |-> <<>>]
    ELSE [ok |-> TRUE, text |-> d]

----------------------------------------------------------------------------
(* Records.                                                                *)

UserProcess == "UserProcess"
BootTime == "BootTime"
DeadProcess == "DeadProcess"
LoginProcess == "LoginProcess"
RunLevel == "RunLevel"
InitProcess == "InitProcess"
NewTime == "NewTime"

UtmpxTypes ==
    {UserProcess, BootTime, DeadProcess, LoginProcess, RunLevel, InitProcess, NewTime}

Utmpx(user, device, utype, login_time) ==
    [user |-> user, device |-> device, utype |-> utype, login_time |-> login_time]

\* the records an accounting database of the model may hold
Records ==
    { Utmpx("alice", TtyA1, UserProcess, 1),
      Utmpx("carol", BadDev, UserProcess, 2),
      Utmpx("reboot", Tilde, BootTime, 1),
      Utmpx("", TtyA1, DeadProcess, 2),
      Utmpx("LOGIN", TtyA1, LoginProcess, 1),
      Utmpx("runlevel", Tilde, RunLevel, 2),
      Utmpx("", TtyB2, InitProcess, 1),
      Utmpx("", TtyA1, NewTime, 2) }

Injective(f) == \A i, j \in DOMAIN f : f[i] = f[j] => i = j

\* the databases: sequences of distinct records, in the database's native order
RecordSeqs ==
    UNION { {s \in [1..n -> Records] : Injective(s)} : n \in 0..MaxRecs }


----------------------------------------------------------------------------
(* WhoFlags.                                                               *)

Options ==
    {"boot", "dead", "heading", "login", "associated_stdin", "process", "count",
     "runlevel", "short", "time", "message", "users", "idle", "all"}

is_present(m, name) == name \in m

\* a mutant: "all" sets the type filters only
from_matches_types_only(m) ==
    [boot |-> is_present(m, "boot") \/ is_present(m, "all"),
     dead |-> is_present(m, "dead") \/ is_present(m, "all"),
     heading |-> is_present(m, "heading"),
     login |-> is_present(m, "login") \/ is_present(m, "all"),
     associated_stdin |-> is_present(m, "associated_stdin"),
     process |-> is_present(m, "process") \/ is_present(m, "all"),
     count |-> is_present(m, "count"),
     run_level |-> is_present(m, "runlevel") \/ is_present(m, "all"),
     short |-> is_present(m, "short"),
     time |-> is_present(m, "time") \/ is_present(m, "all"),
     message |-> is_present(m, "message"),
     users |-> is_present(m, "users") \/ is_present(m, "all"),
     idle |-> is_present(m, "idle")]

from_matches(m) ==
    [boot |-> is_present(m, "boot") \/ is_present(m, "all"),
     dead |-> is_present(m, "dead") \/ is_present(m, "all"),
     heading |-> is_present(m, "heading"),
     login |-> is_present(m, "login") \/ is_present(m, "all"),
     associated_stdin |-> is_present(m, "associated_stdin"),
     process |-> is_present(m, "process") \/ is_present(m, "all"),
     count |-> is_present(m, "count"),
     run_level |-> is_present(m, "runlevel") \/ is_present(m, "all"),
     short |-> is_present(m, "short"),
     time |-> is_present(m, "time") \/ is_present(m, "all"),
     message |-> is_present(m, "message") \/ is_present(m, "all"),
     users |-> is_present(m, "users") \/ is_present(m, "all"),
     idle |-> is_present(m, "idle") \/ is_present(m, "all")]

is_all_false(f) ==
    <<f.boot, f.dead, f.login, f.process, f.run_level, f.short, f.time, f.users, f.idle>>
        = <<FALSE, FALSE, FALSE, FALSE, FALSE, FALSE, FALSE, FALSE, FALSE>>

\* the flags before from_matches has run
NoFlags == from_matches({})

----------------------------------------------------------------------------
(* The record source.                                                      *)

NoFile == "(none)"
FileArgs == {NoFile, "/nonexistent", "/var/log/wtmp"}

\* the records of the one readable file of the model
WtmpRecords ==
    << Utmpx("bob", TtyB2, UserProcess, 2), Utmpx("reboot", Tilde, BootTime, 1) >>

\* UtmpxSet::from_file: Err when the file cannot be opened or fully decoded
\* (main discards the error value, so one unloadable file stands for both)
from_file(path) ==
    IF path = "/nonexistent"
    THEN [ok |-> FALSE, set |-> <<>>]
    ELSE [ok |-> TRUE, set |-> WtmpRecords]

----------------------------------------------------------------------------
(* The terminal of standard input.                                         *)

\* the outcomes of TTYName::new(FileDescriptor::StdIn)
TtyResults ==
    { [ok |-> FALSE, name |-> <<>>],
      [ok |-> TRUE, name |-> DevPrefix \o TtyA1],
      [ok |-> TRUE, name |-> DevPrefix \o TtyB2],
      [ok |-> TRUE, name |-> DevPrefix \o TtyReplacement] }

\* format!("{}", tty).trim_start_matches("/dev/")
curr_tty_name(t) == TrimStartMatches(t.name, DevPrefix)

----------------------------------------------------------------------------
(* filter_entries.                                                         *)

OfType(s, t) == LET Test(u) == u.utype = t IN SelectSeq(s, Test)

\* uts.iter().filter(|u| format!("{}", u.device_name()) == curr_tty_name)
OnDevice(s, d) == LET Test(u) == Display(u.device) = d IN SelectSeq(s, Test)

\* a mutant: the new-time bucket is filled with the run-level records
uts_buckets_time_slip(ws) ==
    [user |-> OfType(ws, UserProcess),
     boot |-> OfType(ws, BootTime),
     dead |-> OfType(ws, DeadProcess),
     login |-> OfType(ws, LoginProcess),
     runlv |-> OfType(ws, RunLevel),
     init |-> OfType(ws, InitProcess),
     time |-> OfType(ws, RunLevel)]

\* the seven buckets of the working set
uts_buckets(ws) ==
    [user |-> OfType(ws, UserProcess),
     boot |-> OfType(ws, BootTime),
     dead |-> OfType(ws, DeadProcess),
     login |-> OfType(ws, LoginProcess),
     runlv |-> OfType(ws, RunLevel),
     init |-> OfType(ws, InitProcess),
     time |-> OfType(ws, NewTime)]

NoBuckets == uts_buckets(<<>>)

\* the appends to ut_vec
append_buckets(f, b) ==
    IF is_all_false(f)
    THEN b.user
    ELSE (IF f.users THEN b.user ELSE <<>>)
         \o (IF f.boot THEN b.boot ELSE <<>>)
         \o (IF f.dead THEN b.dead ELSE <<>>)
         \o (IF f.login THEN b.login ELSE <<>>)
         \o (IF f.run_level THEN b.runlv ELSE <<>>)
         \o (IF f.process THEN b.init ELSE <<>>)
         \o (IF f.time THEN b.time ELSE <<>>)

\* the working set: the records on the terminal of standard input, or all
working_set(set, f, tty_name) ==
    IF f.associated_stdin THEN OnDevice(set, tty_name) ELSE set

\* the value of filter_entries, given the resolved terminal name
filter_entries(set, f, tty_name) ==
    append_buckets(f, uts_buckets(working_set(set, f, tty_name)))

----------------------------------------------------------------------------
(* The sort of main.                                                       *)

IsSortedByKey(s) == \A i \in 1..(Len(s) - 1) : s[i].login_time <= s[i + 1].login_time

Permutations(s) ==
    { [i \in 1..Len(s) |-> s[p[i]]] :
        p \in {q \in [1..Len(s) -> 1..Len(s)] : Injective(q)} }

\* a mutant: the comparison is reversed
sort_descending(s) ==
    {t \in Permutations(s) :
        \A i \in 1..(Len(t) - 1) : t[i].login_time >= t[i + 1].login_time}

\* a mutant: the vector is left as filter_entries returned it
sort_skipped(s) == {s}

\* sort_unstable_by_key(|u| u.login_time()): the vector ends ordered by the key;
\* the order of records with equal keys is not specified, so every ordered
\* permutation is a possible outcome
sort_unstable_by_key(s) == {t \in Permutations(s) : IsSortedByKey(t)}

----------------------------------------------------------------------------
(* Output.                                                                 *)

Users(s) == [i \in 1..Len(s) |-> s[i].user]

NoOutput == [mode |-> "none", names |-> <<>>, counter |-> 0,
             header |-> <<>>, layout |-> "", rows |-> <<>>]

\* the column labels print_header prints
print_header(f) ==
    IF is_all_false(f) THEN <<"NAME", "LINE", "TIME", "COMMENT">>
    ELSE IF f.short THEN <<"NAME", "LINE", "TIME">>
    ELSE IF f.idle THEN <<"NAME", "LINE", "TIME", "IDLE", "COMMENT">>
    ELSE <<"NAME", "LINE", "PID", "TIME", "IDLE", "COMMENT">>

\* the row layout print_info uses
print_info_layout(f) ==
    IF is_all_false(f) THEN "default"
    ELSE IF f.short THEN "short"
    ELSE IF f.idle THEN "idle"
    ELSE "full"


----------------------------------------------------------------------------
(* def_status.                                                             *)

\* the group-write permission bit (0o020)
S_IWGRP == 16

RECURSIVE BitAnd(_, _)
BitAnd(a, b) ==
    IF a = 0 \/ b = 0 THEN 0
    ELSE (a % 2) * (b % 2) + 2 * BitAnd(a \div 2, b \div 2)

Digit(d) == <<"0", "1", "2", "3", "4", "5", "6", "7", "8", "9">>[d + 1]

RECURSIVE Decimal(_)
Decimal(n) == IF n < 10 THEN <<Digit(n)>> ELSE Decimal(n \div 10) \o <<Digit(n % 10)>>

\* format!("{:02}", n): decimal, padded with zeros on the left to two characters
Fmt02(n) == IF Len(Decimal(n)) < 2 THEN <<"0">> \o Decimal(n) ELSE Decimal(n)

NoMeta == [ok |-> FALSE, mode |-> 0, atime |-> 0]

\* the write indicator
def_status_msg(m) ==
    IF m.ok THEN (IF BitAnd(m.mode, S_IWGRP) = 0 THEN "-" ELSE "+") ELSE "?"

def_status_last_change(m) == IF m.ok THEN m.atime ELSE 0

\* a mutant: the test `0 < last_change` is left out
def_status_idle_no_sign_test(last_change, t) ==
    IF last_change = 0
    THEN <<"?">>
    ELSE IF t - 24 * 3600 < last_change /\ last_change <= t
         THEN LET seconds_idle == t - last_change
              IN  IF seconds_idle < 60
                  THEN <<".">>
                  ELSE Fmt02(seconds_idle \div 3600) \o <<":">>
                           \o Fmt02((seconds_idle % 3600) \div 60)
         ELSE <<"o", "l", "d">>

\* the idle label
def_status_idle(last_change, t) ==
    IF last_change = 0
    THEN <<"?">>
    ELSE IF 0 < last_change /\ t - 24 * 3600 < last_change /\ last_change <= t
         THEN LET seconds_idle == t - last_change
              IN  IF seconds_idle < 60
                  THEN <<".">>
                  ELSE Fmt02(seconds_idle \div 3600) \o <<":">>
                           \o Fmt02((seconds_idle % 3600) \div 60)
         ELSE <<"o", "l", "d">>

\* a mutant: unreadable metadata is reported like a device without group write
def_status_unreadable_as_minus(m, t) ==
    [msg |-> IF m.ok /\ BitAnd(m.mode, S_IWGRP) # 0 THEN "+" ELSE "-",
     idle |-> def_status_idle(def_status_last_change(m), t)]

\* the pair def_status returns for a device name that is valid text
def_status(m, t) ==
    [msg |-> def_status_msg(m), idle |-> def_status_idle(def_status_last_change(m), t)]

NoStatus == [msg |-> "", idle |-> <<>>]

----------------------------------------------------------------------------
(* The run of main.                                                        *)

ArgSets == {a \in SUBSET Options : Cardinality(a) <= MaxOpts}

\* the clock of a run of main, and what def_status can find for a device
\* file during it: no file, or a group-writable one read an hour ago
MainNow == 100000

MainMetas ==
    {NoMeta, [ok |-> TRUE, mode |-> 8592, atime |-> MainNow - 3600]}

\* a mutant: a FILE that cannot be loaded leaves the record set empty
load_no_fallback(path, system) ==
    IF path # NoFile
    THEN (IF from_file(path).ok THEN from_file(path).set ELSE <<>>)
    ELSE system

\* the record set main uses: `let uts = if matches.is_present("FILE") ...`
load(path, system) ==
    IF path # NoFile
    THEN (IF from_file(path).ok THEN from_file(path).set ELSE system)
    ELSE system

Init ==
    /\ pc = "args"
    /\ argv \in ArgSets
    /\ file_arg \in FileArgs
    /\ live = <<>>
    /\ flags = NoFlags
    /\ uts = <<>>
    /\ tty = [ok |-> FALSE, name |-> <<>>]
    /\ buckets = NoBuckets
    /\ selected = <<>>
    /\ ut_vec = <<>>
    /\ stdout = NoOutput
    /\ stderr = <<>>
    /\ exit_code = -1
    /\ dev_name = <<>>
    /\ meta = NoMeta
    /\ now = MainNow
    /\ status = NoStatus

FromMatches ==
    /\ pc = "args"
    /\ flags' = from_matches(argv)
    /\ pc' = "load"
    /\ UNCHANGED <<argv, file_arg, live, uts, tty, buckets, selected, ut_vec,
                   stdout, stderr, exit_code, dev_name, meta, now, status>>

\* no FILE argument: the live database is read
LoadSystem ==
    /\ pc = "load"
    /\ file_arg = NoFile
    /\ \E system \in RecordSeqs :
        /\ live' = system
        /\ uts' = load(file_arg, system)
    /\ pc' = "filter"
    /\ UNCHANGED <<argv, file_arg, flags, tty, buckets, selected, ut_vec,
                   stdout, stderr, exit_code, dev_name, meta, now, status>>

\* FILE given and loaded: the live database is not read
LoadFile ==
    /\ pc = "load"
    /\ file_arg # NoFile
    /\ from_file(file_arg).ok
    /\ uts' = load(file_arg, live)
    /\ pc' = "filter"
    /\ UNCHANGED <<argv, file_arg, live, flags, tty, buckets, selected, ut_vec,
                   stdout, stderr, exit_code, dev_name, meta, now, status>>

\* FILE given and not loadable: Err(_) => UtmpxSet::system()
LoadFallback ==
    /\ pc = "load"
    /\ file_arg # NoFile
    /\ ~from_file(file_arg).ok
    /\ \E system \in RecordSeqs :
        /\ live' = system
        /\ uts' = load(file_arg, system)
    /\ pc' = "filter"
    /\ UNCHANGED <<argv, file_arg, flags, tty, buckets, selected, ut_vec,
                   stdout, stderr, exit_code, dev_name, meta, now, status>>

\* associated_stdin, and standard input is no terminal: the run ends
FilterEntriesNoTty ==
    /\ pc = "filter"
    /\ flags.associated_stdin
    /\ \E t \in TtyResults :
        /\ ~t.ok
        /\ tty' = t
    /\ stderr' = Append(stderr, "who: failed to get current tty")
    /\ exit_code' = 1
    /\ pc' = "exit"
    /\ UNCHANGED <<argv, file_arg, live, flags, uts, buckets, selected, ut_vec,
                   stdout, dev_name, meta, now, status>>

\* associated_stdin: the records on the terminal of standard input
FilterEntriesStdin ==
    /\ pc = "filter"
    /\ flags.associated_stdin
    /\ \E t \in TtyResults :
        /\ t.ok
        /\ tty' = t
        /\ buckets' = uts_buckets(working_set(uts, flags, curr_tty_name(t)))
        /\ selected' = filter_entries(uts, flags, curr_tty_name(t))
    /\ pc' = "sort"
    /\ UNCHANGED <<argv, file_arg, live, flags, uts, ut_vec,
                   stdout, stderr, exit_code, dev_name, meta, now, status>>

\* no associated_stdin: the terminal is not looked at
FilterEntriesAll ==
    /\ pc = "filter"
    /\ ~flags.associated_stdin
    /\ buckets' = uts_buckets(working_set(uts, flags, <<>>))
    /\ selected' = filter_entries(uts, flags, <<>>)
    /\ pc' = "sort"
    /\ UNCHANGED <<argv, file_arg, live, flags, uts, tty, ut_vec,
                   stdout, stderr, exit_code, dev_name, meta, now, status>>

Sort ==
    /\ pc = "sort"
    /\ ut_vec' \in sort_unstable_by_key(selected)
    /\ pc' = "output"
    /\ UNCHANGED <<argv, file_arg, live, flags, uts, tty, buckets, selected,
                   stdout, stderr, exit_code, dev_name, meta, now, status>>

\* the names and the counter of count mode
count_output(v) ==
    [mode |-> "count", names |-> Users(OfType(v, UserProcess)),
     counter |-> Len(OfType(v, UserProcess)),
     header |-> <<>>, layout |-> "", rows |-> <<>>]

\* the first row whose device name is not valid text, or Len(v) + 1
FirstBadName(v) ==
    LET bad == {i \in 1..Len(v) : ~to_str(v[i].device).ok}
    IN  IF bad = {} THEN Len(v) + 1 ELSE CHOOSE i \in bad : \A k \in bad : i <= k

\* one row of print_info, m the metadata def_status finds for the row's
\* device file at time t: the write indicator only with `message`, the idle
\* label only in the idle and full layouts
print_info_row(u, f, m, t) ==
    LET st == def_status(m, t)
    IN  [user |-> u.user,
         msg |-> IF f.message THEN st.msg ELSE " ",
         device |-> Display(u.device),
         login_time |-> u.login_time,
         idle |-> IF print_info_layout(f) \in {"idle", "full"} THEN st.idle ELSE <<>>]

\* the header and the rows printed before the first device name that is not
\* valid text (def_status ends the run there); ms[i] is the metadata found
\* for row i
rows_output(v, f, ms, t) ==
    [mode |-> "rows", names |-> <<>>, counter |-> 0,
     header |-> IF f.heading THEN print_header(f) ELSE <<>>,
     layout |-> print_info_layout(f),
     rows |-> [i \in 1..(FirstBadName(v) - 1) |-> print_info_row(v[i], f, ms[i], t)]]

Count ==
    /\ pc = "output"
    /\ flags.count
    /\ stdout' = count_output(ut_vec)
    /\ exit_code' = 0
    /\ pc' = "done"
    /\ UNCHANGED <<argv, file_arg, live, flags, uts, tty, buckets, selected, ut_vec,
                   stderr, dev_name, meta, now, status>>

\* every row is probed and printed; what the probe finds for a device file
\* is the file system's choice, and the results are carried by the rows
PrintInfo ==
    /\ pc = "output"
    /\ ~flags.count
    /\ FirstBadName(ut_vec) > Len(ut_vec)
    /\ \E ms \in [1..Len(ut_vec) -> MainMetas] :
          stdout' = rows_output(ut_vec, flags, ms, now)
    /\ exit_code' = 0
    /\ pc' = "done"
    /\ UNCHANGED <<argv, file_arg, live, flags, uts, tty, buckets, selected, ut_vec,
                   stderr, dev_name, meta, now, status>>

\* a row's device name is not valid text: def_status ends the run after the
\* rows before it have been printed
PrintInfoBadName ==
    /\ pc = "output"
    /\ ~flags.count
    /\ FirstBadName(ut_vec) <= Len(ut_vec)
    /\ \E ms \in [1..Len(ut_vec) -> MainMetas] :
          stdout' = rows_output(ut_vec, flags, ms, now)
    /\ dev_name' = ut_vec[FirstBadName(ut_vec)].device
    /\ stderr' = Append(stderr, "who: failed to UTF-8 device name")
    /\ exit_code' = 1
    /\ pc' = "exit"
    /\ UNCHANGED <<argv, file_arg, live, flags, uts, tty, buckets, selected, ut_vec,
                   meta, now, status>>

Next ==
    \/ FromMatches
    \/ LoadSystem
    \/ LoadFile
    \/ LoadFallback
    \/ FilterEntriesNoTty
    \/ FilterEntriesStdin
    \/ FilterEntriesAll
    \/ Sort
    \/ Count
    \/ PrintInfo
    \/ PrintInfoBadName

Spec == Init /\ [][Next]_vars


----------------------------------------------------------------------------
(* def_status on its own: the inputs are drawn by the initial state.       *)

Nows == {-10, 0, 50, 3600, 86400, 90000, 100000, 1700000000}

\* seconds between the last access and now (negative: a time in the future)
Elapsed == {-1, 0, 1, 20, 59, 60, 61, 3599, 3600, 3661, 45296, 86399, 86400, 86401, 90000}

AccessTimes(t) == {-1, 0, 1} \cup {t - e : e \in Elapsed}

\* character devices: crw--w----, crw-------, crw-rw-rw-, crw----rw-
Modes == {8592, 8576, 8630, 8582}

Metas(t) == {NoMeta} \cup [ok : {TRUE}, mode : Modes, atime : AccessTimes(t)]

InitStatus ==
    /\ pc = "probe"
    /\ dev_name \in {TtyA1, Tilde, BadDev}
    /\ now \in Nows
    /\ meta \in Metas(now)
    /\ status = NoStatus
    /\ argv = {}
    /\ file_arg = NoFile
    /\ live = <<>>
    /\ flags = NoFlags
    /\ uts = <<>>
    /\ tty = [ok |-> FALSE, name |-> <<>>]
    /\ buckets = NoBuckets
    /\ selected = <<>>
    /\ ut_vec = <<>>
    /\ stdout = NoOutput
    /\ stderr = <<>>
    /\ exit_code = -1

\* the device name is not valid text: the run ends
DefStatusBadName ==
    /\ pc = "probe"
    /\ ~to_str(dev_name).ok
    /\ stderr' = Append(stderr, "who: failed to UTF-8 device name")
    /\ exit_code' = 1
    /\ pc' = "exit"
    /\ UNCHANGED <<argv, file_arg, live, flags, uts, tty, buckets, selected, ut_vec,
                   stdout, dev_name, meta, now, status>>

DefStatus ==
    /\ pc = "probe"
    /\ to_str(dev_name).ok
    /\ status' = def_status(meta, now)
    /\ pc' = "probed"
    /\ UNCHANGED <<argv, file_arg, live, flags, uts, tty, buckets, selected, ut_vec,
                   stdout, stderr, exit_code, dev_name, meta, now>>

NextStatus ==
    \/ DefStatusBadName
    \/ DefStatus

SpecStatus == InitStatus /\ [][NextStatus]_vars

----------------------------------------------------------------------------
(* from_matches on its own: every set of options.                          *)

InitFlags ==
    /\ pc = "args"
    /\ argv \in SUBSET Options
    /\ file_arg = NoFile
    /\ live = <<>>
    /\ flags = NoFlags
    /\ uts = <<>>
    /\ tty = [ok |-> FALSE, name |-> <<>>]
    /\ buckets = NoBuckets
    /\ selected = <<>>
    /\ ut_vec = <<>>
    /\ stdout = NoOutput
    /\ stderr = <<>>
    /\ exit_code = -1
    /\ dev_name = <<>>
    /\ meta = NoMeta
    /\ now = 0
    /\ status = NoStatus

SpecFlags == InitFlags /\ [][FromMatches]_vars


----------------------------------------------------------------------------
(* Vocabulary of the properties.                                           *)

InSeq(r, s) == \E i \in 1..Len(s) : s[i] = r

CountIn(r, s) == Cardinality({i \in 1..Len(s) : s[i] = r})

\* the first position of r in s
Pos(r, s) == CHOOSE i \in 1..Len(s) : s[i] = r /\ \A k \in 1..(i - 1) : s[k] # r

\* filter_entries has just returned (what it returned is not changed later)
Filtered == pc = "sort"

\* the sort of main has just run (ut_vec is not changed later)
Sorted == pc = "output"

\* none of the type-filter flags is set
NoTypeFilter(f) ==
    ~(f.boot \/ f.dead \/ f.login \/ f.process \/ f.run_level \/ f.time \/ f.users)

\* the flag that requests a category
Requested(f, t) ==
    CASE t = UserProcess -> f.users
      [] t = BootTime -> f.boot
      [] t = DeadProcess -> f.dead
      [] t = LoginProcess -> f.login
      [] t = RunLevel -> f.run_level
      [] t = InitProcess -> f.process
      [] t = NewTime -> f.time

\* the place of a category in the fixed order of the concatenation
Rank(t) ==
    CASE t = UserProcess -> 1
      [] t = BootTime -> 2
      [] t = DeadProcess -> 3
      [] t = LoginProcess -> 4
      [] t = RunLevel -> 5
      [] t = InitProcess -> 6
      [] t = NewTime -> 7

\* a terminal name with one leading "/dev/" removed
WithoutDev(name) ==
    IF IsPrefix(DevPrefix, name) THEN SubSeq(name, Len(DevPrefix) + 1, Len(name)) ELSE name

\* the working set of the state: the loaded set, restricted to the terminal
\* of standard input when associated_stdin is set
WorkingSet ==
    IF flags.associated_stdin THEN OnDevice(uts, WithoutDev(tty.name)) ELSE uts

BucketNames == {"user", "boot", "dead", "login", "runlv", "init", "time"}

----------------------------------------------------------------------------
(* C1: with no type-filter flag set (boot, dead, login, process,           *)
(* run_level, time, users), whatever the presentation flags, the selection *)
(* is the user-category bucket of the working set, the selection of a run  *)
(* with only `users` set.                                                  *)
C1_DefaultIsUserBucket ==
    (Filtered /\ NoTypeFilter(flags)) =>
        /\ selected = OfType(WorkingSet, UserProcess)
        /\ selected = filter_entries(uts,
                          [from_matches({"users"}) EXCEPT
                              !.associated_stdin = flags.associated_stdin],
                          WithoutDev(tty.name))

----------------------------------------------------------------------------
(* C2: in count mode the names printed are the users of all UserProcess    *)
(* records of the loaded set and the number printed is their count,        *)
(* whichever type-filter flags are set.  (Stated for runs without          *)
(* associated_stdin, short or idle, so that only the type filters vary.)   *)
C2_CountIgnoresTypeFilters ==
    (pc = "done" /\ flags.count /\ ~flags.associated_stdin
        /\ ~flags.short /\ ~flags.idle) =>
        /\ stdout.counter = Len(OfType(uts, UserProcess))
        /\ \A i \in 1..Len(uts) :
              uts[i].utype = UserProcess =>
                  CountIn(uts[i].user, stdout.names)
                      = Cardinality({k \in 1..Len(uts) :
                            uts[k].utype = UserProcess /\ uts[k].user = uts[i].user})

----------------------------------------------------------------------------
(* C3: the sequence handed to the formatter is ordered ascending by login  *)
(* time: every adjacent pair (a, b) has a.login_time <= b.login_time.      *)
C3_OrderedByLoginTime ==
    /\ Sorted =>
          \A i \in 1..(Len(ut_vec) - 1) :
              ut_vec[i].login_time <= ut_vec[i + 1].login_time
    /\ (pc = "done" /\ stdout.mode = "rows") =>
          \A i \in 1..(Len(stdout.rows) - 1) :
              stdout.rows[i].login_time <= stdout.rows[i + 1].login_time

\* the sort has run on a selection that was not in order
C3_Witness ==
    /\ pc = "output"
    /\ Len(selected) >= 2
    /\ selected[1].login_time > selected[2].login_time
    /\ ut_vec # selected

----------------------------------------------------------------------------
(* C4: with associated_stdin set and the terminal of standard input        *)
(* resolved to T, every selected record has the device T without its       *)
(* leading "/dev/", and every loaded record with that device and a         *)
(* requested category (one the same flags select without the terminal      *)
(* restriction) is selected; without associated_stdin no record is         *)
(* excluded because of its device: records of one category are selected    *)
(* together or not at all.                                                 *)
C4_AssociatedStdin ==
    Filtered =>
        IF flags.associated_stdin
        THEN LET device == WithoutDev(tty.name)
                 unrestricted ==
                     filter_entries(uts, [flags EXCEPT !.associated_stdin = FALSE], <<>>)
             IN  /\ tty.ok
                 /\ \A i \in 1..Len(selected) : selected[i].device = device
                 /\ \A i \in 1..Len(uts) :
                       (uts[i].device = device /\ InSeq(uts[i], unrestricted))
                           => InSeq(uts[i], selected)
        ELSE \A i, j \in 1..Len(uts) :
                 uts[i].utype = uts[j].utype =>
                     (InSeq(uts[i], selected) <=> InSeq(uts[j], selected))

----------------------------------------------------------------------------
(* C5: when FILE is given and cannot be loaded, the run does not end on    *)
(* that failure, the record set used is the live database's (the set used  *)
(* when no FILE is given), and the failure is not reported: a run ends     *)
(* early only on the terminal of standard input or on a device name that   *)
(* is not valid text, and reports only those.                              *)
C5_FileFallback ==
    /\ (pc \notin {"args", "load"} /\ file_arg = NoFile) => uts = live
    /\ (pc \notin {"args", "load"} /\ file_arg # NoFile /\ ~from_file(file_arg).ok) =>
          /\ uts = live
          /\ pc = "filter" => (exit_code = -1 /\ stderr = <<>>)
          /\ pc = "exit" =>
                \/ flags.associated_stdin /\ ~tty.ok
                \/ \E i \in 1..Len(ut_vec) : ~to_str(ut_vec[i].device).ok
          /\ \A i \in 1..Len(stderr) :
                stderr[i] \in {"who: failed to get current tty",
                               "who: failed to UTF-8 device name"}

\* a run whose FILE could not be opened has loaded a non-empty live database
C5_Witness ==
    /\ pc = "filter"
    /\ file_arg = "/nonexistent"
    /\ Len(live) > 0
    /\ uts = live


----------------------------------------------------------------------------
(* Idle labels, as the properties name them.                               *)

LabelUnknown == <<"?">>
LabelActive == <<".">>
LabelOld == <<"o", "l", "d">>

\* HH:MM of a number of seconds below one hundred hours, digit by digit
HoursMinutes(e) ==
    << Digit((e \div 3600) \div 10), Digit((e \div 3600) % 10), ":",
       Digit(((e % 3600) \div 60) \div 10), Digit(((e % 3600) \div 60) % 10) >>

\* the window of the last 24 hours, the present included
InWindow(last, t) == t - 86400 < last /\ last <= t

\* def_status has returned for a device whose metadata was read
Probed == pc = "probed" /\ meta.ok

----------------------------------------------------------------------------
(* C6, as stated: for every pair (last, now) the idle label is "?" if       *)
(* last = 0; otherwise "." if now - 86400 < last <= now and                *)
(* now - last < 60; otherwise HH:MM of now - last if                       *)
(* now - 86400 < last <= now; otherwise "old", which includes              *)
(* last = now - 86400, last > now and last < 0.  In particular last = now  *)
(* gives ".", last = now - 3600 gives "01:00" and last = now - 90000       *)
(* gives "old".                                                            *)
C6_IdleLabelAsStated ==
    Probed =>
        /\ status.idle =
            IF meta.atime = 0 THEN LabelUnknown
            ELSE IF InWindow(meta.atime, now) /\ now - meta.atime < 60 THEN LabelActive
            ELSE IF InWindow(meta.atime, now) THEN HoursMinutes(now - meta.atime)
            ELSE LabelOld
        /\ meta.atime = now - 86400 => status.idle = LabelOld
        /\ meta.atime > now => status.idle = LabelOld
        /\ meta.atime < 0 => status.idle = LabelOld
        /\ meta.atime = now => status.idle = LabelActive
        /\ meta.atime = now - 3600 => status.idle = <<"0", "1", ":", "0", "0">>
        /\ meta.atime = now - 90000 => status.idle = LabelOld

(* C6, amended: for every pair (last, now) the idle label is "?" if        *)
(* last = 0; otherwise "." if 0 < last, now - 86400 < last <= now and      *)
(* now - last < 60; otherwise HH:MM of now - last if 0 < last and          *)
(* now - 86400 < last <= now; otherwise "old", which includes, for         *)
(* last # 0, last = now - 86400, last > now and every last < 0.  In        *)
(* particular, for last > 0, last = now gives "." and last = now - 3600    *)
(* gives "01:00"; for last # 0, last = now - 90000 gives "old".            *)
C6_IdleLabel ==
    Probed =>
        /\ status.idle =
            IF meta.atime = 0 THEN LabelUnknown
            ELSE IF 0 < meta.atime /\ InWindow(meta.atime, now) /\ now - meta.atime < 60
                 THEN LabelActive
            ELSE IF 0 < meta.atime /\ InWindow(meta.atime, now)
                 THEN HoursMinutes(now - meta.atime)
            ELSE LabelOld
        /\ (meta.atime # 0 /\ meta.atime = now - 86400) => status.idle = LabelOld
        /\ (meta.atime # 0 /\ meta.atime > now) => status.idle = LabelOld
        /\ meta.atime < 0 => status.idle = LabelOld
        /\ (meta.atime > 0 /\ meta.atime = now) => status.idle = LabelActive
        /\ (meta.atime > 0 /\ meta.atime = now - 3600) =>
              status.idle = <<"0", "1", ":", "0", "0">>
        /\ (meta.atime # 0 /\ meta.atime = now - 90000) => status.idle = LabelOld

\* a device last read 12 hours 34 minutes 56 seconds ago has been probed
C6_Witness ==
    /\ Probed
    /\ meta.atime = now - 45296
    /\ meta.atime > 0
    /\ status.idle = <<"1", "2", ":", "3", "4">>

----------------------------------------------------------------------------
(* C7, as stated: with "all" given every type-filter flag is true and each *)
(* of heading, short, idle, message, associated_stdin, count is true only  *)
(* if its own option was given.                                            *)
AllSetsTypeFilters ==
    /\ flags.boot /\ flags.dead /\ flags.login /\ flags.process
    /\ flags.run_level /\ flags.time /\ flags.users

C7_AllAsStated ==
    (pc # "args" /\ "all" \in argv) =>
        /\ AllSetsTypeFilters
        /\ flags.heading = ("heading" \in argv)
        /\ flags.short = ("short" \in argv)
        /\ flags.idle = ("idle" \in argv)
        /\ flags.message = ("message" \in argv)
        /\ flags.associated_stdin = ("associated_stdin" \in argv)
        /\ flags.count = ("count" \in argv)

(* C7, amended: with "all" given every type-filter flag is true, message   *)
(* and idle are true as well, and each of heading, short,                  *)
(* associated_stdin, count is true only if its own option was given.       *)
C7_All ==
    (pc # "args" /\ "all" \in argv) =>
        /\ AllSetsTypeFilters
        /\ flags.message
        /\ flags.idle
        /\ flags.heading = ("heading" \in argv)
        /\ flags.short = ("short" \in argv)
        /\ flags.associated_stdin = ("associated_stdin" \in argv)
        /\ flags.count = ("count" \in argv)

\* "all" and "heading" alone have been resolved
C7_Witness ==
    /\ pc = "load"
    /\ argv = {"all", "heading"}
    /\ flags.heading
    /\ ~flags.short

----------------------------------------------------------------------------
(* C8: for a device name that is valid text the probe does not end the run *)
(* and reports no error; unreadable metadata gives the write indicator '?' *)
(* and the idle label "?"; readable metadata gives '+' exactly when the    *)
(* group-write bit is set and '-' otherwise.                               *)
C8_ProbeAbsorbsMetadataError ==
    /\ (pc # "probe" /\ to_str(dev_name).ok) =>
          /\ pc = "probed"
          /\ exit_code = -1
          /\ stderr = <<>>
          /\ ~meta.ok => (status.msg = "?" /\ status.idle = LabelUnknown)
          /\ meta.ok =>
                status.msg = (IF (meta.mode \div 16) % 2 = 1 THEN "+" ELSE "-")
    /\ pc = "exit" => ~to_str(dev_name).ok

\* a device whose metadata could not be read has been probed
C8_Witness ==
    /\ pc = "probed"
    /\ ~meta.ok
    /\ status.msg = "?"

----------------------------------------------------------------------------
(* C9: the seven buckets partition the working set, and when the default   *)
(* rule does not apply the value of filter_entries is the concatenation of *)
(* the requested buckets in the order users, boot, dead, login, run-level, *)
(* process, time, each in native order: every working-set record of a      *)
(* requested category once, none of an unrequested one.                    *)
C9_PartitionAndConcatenation ==
    Filtered =>
        LET ws == WorkingSet
        IN  /\ \A i \in 1..Len(ws) :
                  \E b \in BucketNames :
                      /\ InSeq(ws[i], buckets[b])
                      /\ \A c \in BucketNames \ {b} : ~InSeq(ws[i], buckets[c])
            /\ \A b \in BucketNames :
                  \A i \in 1..Len(buckets[b]) :
                      CountIn(buckets[b][i], buckets[b]) = CountIn(buckets[b][i], ws)
            /\ ~is_all_false(flags) =>
                  /\ \A i \in 1..Len(ws) :
                        CountIn(ws[i], selected) =
                            IF Requested(flags, ws[i].utype) THEN CountIn(ws[i], ws) ELSE 0
                  /\ \A i \in 1..Len(selected) : InSeq(selected[i], ws)
                  /\ \A i, j \in 1..Len(selected) :
                        i < j =>
                            \/ Rank(selected[i].utype) < Rank(selected[j].utype)
                            \/ /\ selected[i].utype = selected[j].utype
                               /\ Pos(selected[i], ws) < Pos(selected[j], ws)

\* two requested buckets have been concatenated against the native order
C9_Witness ==
    /\ pc = "sort"
    /\ ~is_all_false(flags)
    /\ Len(selected) = 2
    /\ Len(WorkingSet) = 2
    /\ selected[1] = WorkingSet[2]
    /\ selected[1].utype = UserProcess
    /\ selected[2].utype = BootTime

----------------------------------------------------------------------------
(* C10, as stated: the sort is stable; two selected records with equal     *)
(* login_time keep the relative order of the bucket concatenation.         *)
C10_SortStableAsStated ==
    Sorted =>
        \A i, j \in 1..Len(selected) :
            (i < j /\ selected[i].login_time = selected[j].login_time) =>
                Pos(selected[i], ut_vec) < Pos(selected[j], ut_vec)

(* C10, amended: the sort orders by login time and is not stable; the      *)
(* output holds the records of the bucket concatenation, each as often,    *)
(* a record with a smaller login_time before one with a larger, and two    *)
(* records with equal login_time in either order.                          *)
C10_SortPermutes ==
    Sorted =>
        /\ Len(ut_vec) = Len(selected)
        /\ \A i \in 1..Len(selected) :
              CountIn(selected[i], ut_vec) = CountIn(selected[i], selected)
        /\ \A i, j \in 1..Len(ut_vec) :
              ut_vec[i].login_time < ut_vec[j].login_time => i < j

\* two records with equal login_time have left the sort in the other order
C10_Witness ==
    /\ pc = "output"
    /\ Len(selected) = 2
    /\ selected[1].login_time = selected[2].login_time
    /\ ut_vec = <<selected[2], selected[1]>>

============================================================================
